---- MODULE Spec2Model ----
(***************************************************************************)
(* A model of monitor_drive.py: the DriveMonitor process.  The process     *)
(* authenticates, builds the provider client, runs the default-visibility  *)
(* probe once and then polls the drive forever.  Every provider call is    *)
(* one step that either succeeds or raises HttpError.                      *)
(***************************************************************************)
EXTENDS Naturals, Sequences, FiniteSets, TLC

VARIABLES
    pc,                 \* position of the single thread of control
    tokenFile,          \* content of token.pickle, or None when absent
    startToken,         \* history: content of token.pickle at process start
    creds,              \* local creds of _authenticate / self.creds
    service,            \* TRUE once self.service has been built
    authLog,            \* history: auth calls issued (load, refresh, flow, write)
    perms,              \* provider: resource id -> set of permissions
    parents,            \* provider: file id -> list of parent folder ids
    file1, file2,       \* get_default_sharing_settings: the two created files
    permissions1,       \* _compare...: permissions of the first file
    permissions2,       \* _compare...: permissions of the second file
    new_permissions,    \* get_default_sharing_settings: value returned
    listing,            \* provider: pages answering the current list query
    page_token,         \* get_all_files: page_token
    combined_file_list, \* get_all_files: combined_file_list
    requests,           \* history: page tokens passed to files().list
    files,              \* monitor_drive: files still to visit in this cycle
    returned,           \* history: the files get_all_files returned this cycle
    file_id,            \* monitor_drive: file of the current iteration
    is_open,            \* monitor_drive: result of is_file_open_for_everyone
    parent_folder_id,   \* monitor_drive: result of get_parent_folder_id
    folder_open,        \* monitor_drive: result of is_folder_open_for_everyone
    permissions,        \* remove_anyone...: permissions still to iterate
    listed,             \* history: the list remove_anyone... fetched
    ret,                \* where remove_anyone... returns to
    calls               \* history: provider calls of the current iteration

vars == <<pc, tokenFile, startToken, creds, service, authLog, perms, parents,
          file1, file2, permissions1, permissions2, new_permissions,
          listing, page_token, combined_file_list, requests,
          files, returned, file_id, is_open, parent_folder_id, folder_open,
          permissions, listed, ret, calls>>

authVars  == <<tokenFile, startToken, creds, service, authLog>>
driveVars == <<perms, parents>>
probeVars == <<file1, file2, permissions1, permissions2, new_permissions>>
listVars  == <<listing, page_token, combined_file_list, requests>>
loopVars  == <<files, returned, file_id, is_open, parent_folder_id,
               folder_open>>
remVars   == <<permissions, listed, ret>>

None == "None"

(***************************************************************************)
(* Bounds of the model.                                                    *)
(***************************************************************************)
MaxPages == 2     \* pages of one listing response

(***************************************************************************)
(* The drive: two files, one folder, and the permissions they may carry.   *)
(***************************************************************************)
Files     == {"f1", "f2"}
Folders   == {"d1"}
Resources == Files \cup Folders

Permission == { [id |-> "a1", type |-> "anyone"],
                [id |-> "a2", type |-> "anyone"],
                [id |-> "u1", type |-> "user"] }
Owner == [id |-> "u1", type |-> "user"]
BasicPermission == { [id |-> "a1", type |-> "anyone"], Owner }

\* Credentials as google-auth sees them: valid implies not expired.  `origin`
\* tells a credential read from the store from one the process obtained.
Cred(o, v, e, r) == [origin |-> o, valid |-> v, expired |-> e, refresh_token |-> r]
NoCred        == Cred("none", FALSE, FALSE, FALSE)     \* Python's None
StoredCreds   == { Cred("stored", TRUE,  FALSE, TRUE),
                   Cred("stored", FALSE, TRUE,  TRUE),
                   Cred("stored", FALSE, TRUE,  FALSE),
                   Cred("stored", FALSE, FALSE, TRUE) }
RefreshedCred == Cred("refreshed", TRUE, FALSE, TRUE)
FlowCred      == Cred("flow", TRUE, FALSE, TRUE)

\* Page tokens: "" asks for the first page, Tokens[k] for page k.
Tokens == <<"", "tok2", "tok3", "tok4", "tok5">>
PageOf(token) == CHOOSE k \in 1..Len(Tokens) : Tokens[k] = token

\* A Python value that is either None or a list.
NoneVal   == [isNone |-> TRUE,  val |-> <<>>]
ListVal(s) == [isNone |-> FALSE, val |-> s]

(***************************************************************************)
(* Helpers.                                                                *)
(***************************************************************************)
Range(s) == { s[i] : i \in 1..Len(s) }

\* All orders in which the provider may return a set of permissions.
Orders(S) == { s \in [1..Cardinality(S) -> S] : Range(s) = S }

SeqsUpTo(S, n) == UNION { [1..k -> S] : k \in 0..n }

\* The lists that hold elements of S, none twice.
DistinctSeqs(S) == { s \in SeqsUpTo(S, Cardinality(S)) :
                       \A i, j \in 1..Len(s) : i # j => s[i] # s[j] }

RECURSIVE Concat(_)
Concat(pp) == IF pp = <<>> THEN <<>> ELSE Head(pp) \o Concat(Tail(pp))

\* dict.get(key, default) on a provider response.
DictGet(d, key, default) == IF key \in DOMAIN d THEN d[key] ELSE default

Call(op, id, perm, ok) == [op |-> op, id |-> id, perm |-> perm, ok |-> ok]

\* Responses of files().get(fields="id, name, permissions"): the permissions in
\* some order; the key may be missing when the resource has none.
GetResponses(id) ==
    { [id |-> id, permissions |-> s] : s \in Orders(perms[id]) }
    \cup (IF perms[id] = {} THEN { [id |-> id] } ELSE {})

\* The permission lists a freshly created probe file may carry.
ProbeLists == DistinctSeqs(BasicPermission)

\* A page lists no file twice; a listing is one to MaxPages pages.
Pages    == DistinctSeqs(Files)
Listings == { l \in SeqsUpTo(Pages, MaxPages) : l # <<>> }

(***************************************************************************)
(* Initial state: the process starts; the drive and the credential store   *)
(* are whatever they happen to be.                                         *)
(***************************************************************************)
Idle ==
    /\ file1 = None /\ file2 = None
    /\ permissions1 = NoneVal /\ permissions2 = NoneVal
    /\ new_permissions = NoneVal
    /\ listing = <<>> /\ page_token = None /\ combined_file_list = <<>>
    /\ requests = <<>>
    /\ files = <<>> /\ returned = {} /\ file_id = None /\ is_open = FALSE
    /\ parent_folder_id = None /\ folder_open = FALSE
    /\ permissions = <<>> /\ listed = <<>> /\ ret = None
    /\ calls = <<>>

\* f1 carries any of the permissions and may lie in d1 or in no folder; f2 lies
\* in d1; f2 and d1 carry at most one 'anyone' permission, d1 always its owner's.
Drives ==
    /\ perms \in { f \in [Resources -> SUBSET Permission] :
                     /\ f["f2"] \subseteq BasicPermission
                     /\ \A d \in Folders :
                          f[d] \subseteq BasicPermission /\ Owner \in f[d] }
    /\ parents \in { p \in [Files -> {<<>>, <<"d1">>}] : p["f2"] = <<"d1">> }

Init ==
    /\ pc = "start"
    /\ tokenFile \in StoredCreds \cup {NoCred}
    /\ startToken = tokenFile
    /\ creds = NoCred
    /\ service = FALSE
    /\ authLog = <<>>
    /\ Drives
    /\ Idle

(***************************************************************************)
(* _authenticate and __init__ (lines 40-57).                               *)
(***************************************************************************)
\* Mutant of NeedsLogin: the validity test inverted.
NeedsLoginInverted(c) == c = NoCred \/ c.valid
\* line 49: not creds or not creds.valid
NeedsLogin(c) == c = NoCred \/ ~c.valid
\* line 50: creds and creds.expired and creds.refresh_token
CanRefresh(c) == c # NoCred /\ c.expired /\ c.refresh_token

\* lines 45-48: read token.pickle when it exists
AuthLoad ==
    /\ pc = "start"
    /\ IF tokenFile # NoCred
          THEN creds' = tokenFile /\ authLog' = Append(authLog, "load")
          ELSE creds' = NoCred /\ authLog' = authLog
    /\ pc' = "auth_check"
    /\ UNCHANGED <<tokenFile, startToken, service, driveVars, probeVars,
                   listVars, loopVars, remVars, calls>>

\* line 49 false, line 57: the stored credential is returned as it is
AuthValid ==
    /\ pc = "auth_check"
    /\ ~NeedsLogin(creds)
    /\ pc' = "build"
    /\ UNCHANGED <<authVars, driveVars, probeVars, listVars, loopVars,
                   remVars, calls>>

\* lines 50-51: creds.refresh(Request()); a RefreshError is not caught
AuthRefresh ==
    /\ pc = "auth_check"
    /\ NeedsLogin(creds) /\ CanRefresh(creds)
    /\ authLog' = Append(authLog, "refresh")
    /\ \/ creds' = RefreshedCred /\ pc' = "auth_write"
       \/ creds' = creds /\ pc' = "aborted"
    /\ UNCHANGED <<tokenFile, startToken, service, driveVars, probeVars,
                   listVars, loopVars, remVars, calls>>

\* lines 53-54: the interactive flow; its failure is not caught
AuthFlow ==
    /\ pc = "auth_check"
    /\ NeedsLogin(creds) /\ ~CanRefresh(creds)
    /\ authLog' = Append(authLog, "flow")
    /\ \/ creds' = FlowCred /\ pc' = "auth_write"
       \/ creds' = creds /\ pc' = "aborted"
    /\ UNCHANGED <<tokenFile, startToken, service, driveVars, probeVars,
                   listVars, loopVars, remVars, calls>>

\* lines 55-56: pickle.dump(creds, token)
AuthWrite ==
    /\ pc = "auth_write"
    /\ tokenFile' = creds
    /\ authLog' = Append(authLog, "write")
    /\ pc' = "build"
    /\ UNCHANGED <<startToken, creds, service, driveVars, probeVars,
                   listVars, loopVars, remVars, calls>>

\* line 42: self.service = build(...)
Build ==
    /\ pc = "build"
    /\ service' = TRUE
    /\ pc' = "probe_create1"
    /\ UNCHANGED <<tokenFile, startToken, creds, authLog, driveVars,
                   probeVars, listVars, loopVars, remVars, calls>>

(***************************************************************************)
(* get_default_sharing_settings (lines 98-139, 178-193).                   *)
(***************************************************************************)
\* lines 131-134: the permissions of the first list whose id is not permission_id
FilterPermissions(p1, permission_id) ==
    SelectSeq(p1, LAMBDA permission : permission.id # permission_id)

\* lines 127-136: the value _compare... returns once both lists are fetched;
\* when permissions2 is empty the function falls off its end and returns None
CompareResult(p1, p2) ==
    IF p2 # <<>> THEN ListVal(FilterPermissions(p1, p2[1].id)) ELSE NoneVal

\* lines 98-112, 180: create_file(ignore_default_visibility=False)
ProbeCreate1 ==
    /\ pc = "probe_create1"
    /\ \E ok \in BOOLEAN :
         /\ file1' = IF ok THEN "t1" ELSE None
         /\ calls' = Append(calls, Call("create", "t1", None, ok))
    /\ pc' = "probe_create2"
    /\ UNCHANGED <<authVars, driveVars, file2, permissions1, permissions2,
                   new_permissions, listVars, loopVars, remVars>>

\* lines 98-112, 181: create_file(ignore_default_visibility=True)
ProbeCreate2 ==
    /\ pc = "probe_create2"
    /\ \E ok \in BOOLEAN :
         /\ file2' = IF ok THEN "t2" ELSE None
         /\ calls' = Append(calls, Call("create", "t2", None, ok))
    /\ pc' = "probe_created"
    /\ UNCHANGED <<authVars, driveVars, file1, permissions1, permissions2,
                   new_permissions, listVars, loopVars, remVars>>

\* lines 182, 190-193: a creation failed, so [] is returned
ProbeFailed ==
    /\ pc = "probe_created"
    /\ ~(file1 # None /\ file2 # None)
    /\ new_permissions' = ListVal(<<>>)
    /\ pc' = "probe_done"
    /\ UNCHANGED <<authVars, driveVars, file1, file2, permissions1,
                   permissions2, listVars, loopVars, remVars, calls>>

\* lines 118, 121: the first file's permissions; HttpError makes _compare... return None
CompareGet1 ==
    /\ pc = "probe_created"
    /\ file1 # None /\ file2 # None
    /\ \/ \E p1 \in ProbeLists :
            /\ permissions1' = ListVal(p1)
            /\ calls' = Append(calls, Call("get", file1, None, TRUE))
            /\ pc' = "compare_get2"
            /\ UNCHANGED new_permissions
       \/ /\ calls' = Append(calls, Call("get", file1, None, FALSE))
          /\ new_permissions' = NoneVal
          /\ pc' = "probe_delete1"
          /\ UNCHANGED permissions1
    /\ UNCHANGED <<authVars, driveVars, file1, file2, permissions2,
                   listVars, loopVars, remVars>>

\* lines 119, 122-139: the second file's permissions and the comparison
CompareGet2 ==
    /\ pc = "compare_get2"
    /\ \/ \E p2 \in ProbeLists :
            /\ permissions2' = ListVal(p2)
            /\ calls' = Append(calls, Call("get", file2, None, TRUE))
            /\ new_permissions' = CompareResult(permissions1.val, p2)
       \/ /\ calls' = Append(calls, Call("get", file2, None, FALSE))
          /\ new_permissions' = NoneVal
          /\ UNCHANGED permissions2
    /\ pc' = "probe_delete1"
    /\ UNCHANGED <<authVars, driveVars, file1, file2, permissions1,
                   listVars, loopVars, remVars>>

\* line 186: files().delete of the first file; HttpError is not caught
ProbeDelete1 ==
    /\ pc = "probe_delete1"
    /\ \E ok \in BOOLEAN :
         /\ calls' = Append(calls, Call("fdelete", file1, None, ok))
         /\ pc' = IF ok THEN "probe_delete2" ELSE "crashed"
    /\ UNCHANGED <<authVars, driveVars, probeVars, listVars, loopVars, remVars>>

\* lines 187, 189: files().delete of the second file, then return new_permissions
ProbeDelete2 ==
    /\ pc = "probe_delete2"
    /\ \E ok \in BOOLEAN :
         /\ calls' = Append(calls, Call("fdelete", file2, None, ok))
         /\ pc' = IF ok THEN "probe_done" ELSE "crashed"
    /\ UNCHANGED <<authVars, driveVars, probeVars, listVars, loopVars, remVars>>

\* lines 198-199, 157-158: the result is logged and monitor_drive(60) is entered
MonitorStart ==
    /\ pc = "probe_done"
    /\ pc' = "list_begin"
    /\ file1' = None /\ file2' = None
    /\ permissions1' = NoneVal /\ permissions2' = NoneVal
    /\ new_permissions' = NoneVal
    /\ calls' = <<>>
    /\ UNCHANGED <<authVars, driveVars, listVars, loopVars, remVars>>

(***************************************************************************)
(* get_all_files (lines 141-155).                                          *)
(***************************************************************************)
\* The provider's answer to files().list(pageToken=token): the page the token
\* names, with a nextPageToken unless it is the last page.  Empty or absent
\* parts may be missing from the response.
ListResponses(token) ==
    LET k    == PageOf(token)
        more == IF k < Len(listing) THEN [nextPageToken |-> Tokens[k + 1]]
                                    ELSE <<>>
    IN  { more @@ [files |-> listing[k]] }
        \cup (IF listing[k] = <<>> THEN { more } ELSE {})

\* Mutant of Extend: the page replaces the list instead of extending it.
ExtendOverwrite(list, response) == DictGet(response, "files", <<>>)
\* line 152: combined_file_list.extend(file_list_response.get('files', []))
Extend(list, response) == list \o DictGet(response, "files", <<>>)
\* line 153: file_list_response.get('nextPageToken')
NextPageToken(response) == DictGet(response, "nextPageToken", None)

\* lines 142-146, 160: get_all_files is entered; the provider's answer to the
\* query of this cycle is whatever was modified in the window
ListBegin ==
    /\ pc = "list_begin"
    /\ listing' \in Listings
    /\ page_token' = ""
    /\ combined_file_list' = <<>>
    /\ requests' = <<>>
    /\ calls' = <<>>
    /\ pc' = "list_page"
    /\ UNCHANGED <<authVars, driveVars, probeVars, loopVars, remVars>>

\* lines 147-153: one page is requested; HttpError is caught nowhere, neither
\* here nor in monitor_drive, and ends the process
ListPage ==
    /\ pc = "list_page"
    /\ page_token # None
    /\ requests' = Append(requests, page_token)
    /\ \/ \E response \in ListResponses(page_token) :
            /\ combined_file_list' = Extend(combined_file_list, response)
            /\ page_token' = NextPageToken(response)
            /\ pc' = "list_page"
       \/ /\ pc' = "crashed"
          /\ UNCHANGED <<combined_file_list, page_token>>
    /\ UNCHANGED <<authVars, driveVars, probeVars, listing, loopVars,
                   remVars, calls>>

\* lines 147, 155, 160: the while loop ends and files = combined_file_list
ListReturn ==
    /\ pc = "list_page"
    /\ page_token = None
    /\ files' = combined_file_list
    /\ returned' = Range(combined_file_list)
    /\ listing' = <<>> /\ combined_file_list' = <<>> /\ requests' = <<>>
    /\ pc' = "for"
    /\ UNCHANGED <<authVars, driveVars, probeVars, page_token, file_id,
                   is_open, parent_folder_id, folder_open, remVars, calls>>

(***************************************************************************)
(* The public checks and get_parent_folder_id (lines 59-77, 89-96).        *)
(***************************************************************************)
\* Mutant of AnyAnyone: all() in place of any().
AllAnyone(ps) == \A i \in 1..Len(ps) : ps[i].type = "anyone"
\* lines 63, 73: any(p['type'] == 'anyone' for p in permissions)
AnyAnyone(ps) == \E i \in 1..Len(ps) : ps[i].type = "anyone"
\* lines 62-64, 72-74: the value computed from a response
PublicAccess(response) == AnyAnyone(DictGet(response, "permissions", <<>>))
\* lines 92-93: parents[0] if parents else None
FirstParent(response) ==
    LET ps == DictGet(response, "parents", <<>>)
    IN  IF ps # <<>> THEN ps[1] ELSE None

\* Responses of files().get(fields="parents")
ParentResponses(id) ==
    { [parents |-> parents[id]] }
    \cup (IF parents[id] = <<>> THEN { <<>> } ELSE {})

(***************************************************************************)
(* monitor_drive (lines 157-176).                                          *)
(***************************************************************************)
\* lines 161-163: the next file of the listing
ForNext ==
    /\ pc = "for"
    /\ files # <<>>
    /\ file_id' = Head(files)
    /\ files' = Tail(files)
    /\ is_open' = FALSE /\ parent_folder_id' = None /\ folder_open' = FALSE
    /\ calls' = <<>>
    /\ pc' = "check_file"
    /\ UNCHANGED <<authVars, driveVars, probeVars, listVars, returned, remVars>>

\* lines 164, 59-67: is_file_open_for_everyone(file_id)
CheckFile ==
    /\ pc = "check_file"
    /\ \/ \E response \in GetResponses(file_id) :
            /\ is_open' = PublicAccess(response)
            /\ calls' = Append(calls, Call("get", file_id, None, TRUE))
       \/ /\ is_open' = FALSE
          /\ calls' = Append(calls, Call("get", file_id, None, FALSE))
    /\ pc' = "file_checked"
    /\ UNCHANGED <<authVars, driveVars, probeVars, listVars, files, returned, file_id,
                   parent_folder_id, folder_open, remVars>>

\* lines 173-174: "is a private file"
LogPrivate ==
    /\ pc = "file_checked"
    /\ ~is_open
    /\ pc' = "for"
    /\ UNCHANGED <<authVars, driveVars, probeVars, listVars, loopVars,
                   remVars, calls>>

\* lines 165, 89-96: get_parent_folder_id(file_id)
GetParent ==
    /\ pc = "file_checked"
    /\ is_open
    /\ \/ \E response \in ParentResponses(file_id) :
            /\ parent_folder_id' = FirstParent(response)
            /\ calls' = Append(calls, Call("parents", file_id, None, TRUE))
       \/ /\ parent_folder_id' = None
          /\ calls' = Append(calls, Call("parents", file_id, None, FALSE))
    /\ pc' = "parent_got"
    /\ UNCHANGED <<authVars, driveVars, probeVars, listVars, files, returned, file_id,
                   is_open, folder_open, remVars>>

\* lines 166, 69-77: is_folder_open_for_everyone(parent_folder_id), called only
\* when parent_folder_id is truthy
CheckFolder ==
    /\ pc = "parent_got"
    /\ parent_folder_id # None
    /\ \/ \E response \in GetResponses(parent_folder_id) :
            /\ folder_open' = PublicAccess(response)
            /\ calls' = Append(calls, Call("get", parent_folder_id, None, TRUE))
       \/ /\ folder_open' = FALSE
          /\ calls' = Append(calls, Call("get", parent_folder_id, None, FALSE))
    /\ pc' = "folder_checked"
    /\ UNCHANGED <<authVars, driveVars, probeVars, listVars, files, returned, file_id,
                   is_open, parent_folder_id, remVars>>

\* Mutant of ShouldRemediate: the folder's check is ignored.
ShouldRemediateAnyParent(parent, open) == parent # None
\* line 166: parent_folder_id and is_folder_open_for_everyone(parent_folder_id)
ShouldRemediate(parent, open) == parent # None /\ open

\* lines 169-172: "is a public file but in a private folder"
LogUnchanged ==
    /\ pc \in {"parent_got", "folder_checked"}
    /\ pc = "parent_got" => parent_folder_id = None
    /\ ~ShouldRemediate(parent_folder_id, folder_open)
    /\ pc' = "for"
    /\ UNCHANGED <<authVars, driveVars, probeVars, listVars, loopVars,
                   remVars, calls>>

\* line 167: remove_anyone_can_access_permissions(file_id) is called
RemoveCall ==
    /\ pc = "folder_checked"
    /\ ShouldRemediate(parent_folder_id, folder_open)
    /\ ret' = "removed"
    /\ pc' = "remove_list"
    /\ UNCHANGED <<authVars, driveVars, probeVars, listVars, loopVars,
                   permissions, listed, calls>>

\* line 168: "was a public file and is now private"
LogNowPrivate ==
    /\ pc = "removed"
    /\ pc' = "for"
    /\ UNCHANGED <<authVars, driveVars, probeVars, listVars, loopVars,
                   remVars, calls>>

\* line 176: time.sleep(interval), then the next cycle
Sleep ==
    /\ pc = "for"
    /\ files = <<>>
    /\ pc' = "list_begin"
    /\ file_id' = None /\ is_open' = FALSE
    /\ parent_folder_id' = None /\ folder_open' = FALSE
    /\ permissions' = <<>> /\ listed' = <<>> /\ ret' = None
    /\ calls' = <<>>
    /\ returned' = {}
    /\ UNCHANGED <<authVars, driveVars, probeVars, listVars, files>>

(***************************************************************************)
(* remove_anyone_can_access_permissions (lines 79-87).                     *)
(***************************************************************************)
\* Mutants of IsAnyone: the wrong grant type, and no test at all.
IsAnyoneUser(permission) == permission.type = "user"
IsAnyoneAlways(permission) == TRUE
\* line 83: permission.get('type') == 'anyone'
IsAnyone(permission) == permission.type = "anyone"

\* Responses of permissions().list(fileId=id)
PermissionsResponses(id) ==
    { [permissions |-> s] : s \in Orders(perms[id]) }
    \cup (IF perms[id] = {} THEN { <<>> } ELSE {})

\* Mutant of DeleteRequest: the delete is addressed to the parent folder.
DeleteRequestOnParent(file, permission) ==
    [fileId |-> parent_folder_id, permissionId |-> permission.id]
\* line 84: the arguments of permissions().delete
DeleteRequest(file, permission) ==
    [fileId |-> file, permissionId |-> permission.id]

\* The provider's permissions().delete(fileId=id, permissionId=pid)
Deleted(id, pid) ==
    [perms EXCEPT ![id] = { q \in @ : q.id # pid }]

\* lines 81-82: permissions().list; HttpError ends the function (lines 86-87)
RemoveList ==
    /\ pc = "remove_list"
    /\ \/ \E response \in PermissionsResponses(file_id) :
            /\ permissions' = DictGet(response, "permissions", <<>>)
            /\ listed' = DictGet(response, "permissions", <<>>)
            /\ calls' = Append(calls, Call("plist", file_id, None, TRUE))
            /\ pc' = "remove_iter"
       \/ /\ permissions' = <<>> /\ listed' = <<>>
          /\ calls' = Append(calls, Call("plist", file_id, None, FALSE))
          /\ pc' = ret
    /\ UNCHANGED <<authVars, driveVars, probeVars, listVars, loopVars, ret>>

\* lines 82-83: a permission of another type is passed over
RemoveSkip ==
    /\ pc = "remove_iter"
    /\ permissions # <<>>
    /\ ~IsAnyone(Head(permissions))
    /\ permissions' = Tail(permissions)
    /\ UNCHANGED <<pc, authVars, driveVars, probeVars, listVars, loopVars,
                   listed, ret, calls>>

\* lines 83-85: permissions().delete for an 'anyone' permission; HttpError ends
\* the function (lines 86-87) with the rest of the list unvisited
RemoveDelete ==
    /\ pc = "remove_iter"
    /\ permissions # <<>>
    /\ IsAnyone(Head(permissions))
    /\ LET rq == DeleteRequest(file_id, Head(permissions))
       IN  \/ /\ perms' = Deleted(rq.fileId, rq.permissionId)
              /\ calls' = Append(calls, Call("pdelete", rq.fileId,
                                             rq.permissionId, TRUE))
              /\ permissions' = Tail(permissions)
              /\ pc' = "remove_iter"
           \/ /\ perms' = perms
              /\ calls' = Append(calls, Call("pdelete", rq.fileId,
                                             rq.permissionId, FALSE))
              /\ permissions' = <<>>
              /\ pc' = ret
    /\ UNCHANGED <<authVars, parents, probeVars, listVars, loopVars, listed, ret>>

\* line 82: the for loop is exhausted and the function returns
RemoveReturn ==
    /\ pc = "remove_iter"
    /\ permissions = <<>>
    /\ pc' = ret
    /\ UNCHANGED <<authVars, driveVars, probeVars, listVars, loopVars,
                   remVars, calls>>

(***************************************************************************)
(* The process (lines 196-199).                                            *)
(***************************************************************************)
Next ==
    \/ AuthLoad \/ AuthValid \/ AuthRefresh \/ AuthFlow \/ AuthWrite \/ Build
    \/ ProbeCreate1 \/ ProbeCreate2 \/ ProbeFailed \/ CompareGet1
    \/ CompareGet2 \/ ProbeDelete1 \/ ProbeDelete2 \/ MonitorStart
    \/ ListBegin \/ ListPage \/ ListReturn
    \/ ForNext \/ CheckFile \/ LogPrivate \/ GetParent \/ CheckFolder
    \/ LogUnchanged \/ RemoveCall \/ LogNowPrivate \/ Sleep
    \/ RemoveList \/ RemoveSkip \/ RemoveDelete \/ RemoveReturn

Spec == Init /\ [][Next]_vars

(***************************************************************************)
(* remove_anyone_can_access_permissions on its own: the function is called *)
(* on any file, any number of times, on a drive in any state.              *)
(***************************************************************************)
InitRemove ==
    /\ pc = "idle"
    /\ tokenFile = FlowCred /\ startToken = NoCred /\ creds = FlowCred
    /\ service = TRUE
    /\ authLog = <<"flow", "write">>
    /\ Drives
    /\ Idle

CallRemove ==
    /\ pc = "idle"
    /\ file_id' \in Files
    /\ permissions' = <<>> /\ listed' = <<>>
    /\ ret' = "idle"
    /\ calls' = <<>>
    /\ pc' = "remove_list"
    /\ UNCHANGED <<authVars, driveVars, probeVars, listVars, files, returned,
                   is_open, parent_folder_id, folder_open>>

NextRemove ==
    \/ CallRemove
    \/ RemoveList \/ RemoveSkip \/ RemoveDelete \/ RemoveReturn

SpecRemove == InitRemove /\ [][NextRemove]_vars

(***************************************************************************)
(* Vocabulary of the properties.                                           *)
(***************************************************************************)
TypeAnyone(p) == p.type = "anyone"
AnyoneOn(r)   == { p \in perms[r] : TypeAnyone(p) }
OthersOn(r)   == { p \in perms[r] : ~TypeAnyone(p) }
CallsOf(ops)  == SelectSeq(calls, LAMBDA c : c.op \in ops)
Deletes       == CallsOf({"pdelete"})
Last(s)       == s[Len(s)]
IsPrefix(s, t) == Len(s) <= Len(t) /\ \A i \in 1..Len(s) : s[i] = t[i]
\* The ids of the 'anyone' permissions of a list, in list order.
AnyoneIds(ps) ==
    LET sel == SelectSeq(ps, TypeAnyone)
    IN  [i \in 1..Len(sel) |-> sel[i].id]
CallIds(cs) == [i \in 1..Len(cs) |-> cs[i].perm]
AllOk(cs) == \A i \in 1..Len(cs) : cs[i].ok

StartupPcs == {"start", "auth_check", "auth_write", "build", "probe_create1",
               "probe_create2", "probe_created", "compare_get2",
               "probe_delete1", "probe_delete2", "probe_done"}
RemovePcs  == {"remove_list", "remove_iter"}
LoopPcs    == {"list_begin", "list_page", "for", "check_file", "file_checked",
               "parent_got", "folder_checked", "removed"} \cup RemovePcs

(***************************************************************************)
(* C1.  Remediation of a public file in a public folder.                   *)
(***************************************************************************)
\* The 'anyone' permissions the file carried when the function was called:
\* those still on it and those a delete call has removed.
AnyoneAtCall ==
    AnyoneOn(file_id) \cup
    { p \in Permission : /\ TypeAnyone(p)
                         /\ \E i \in 1..Len(Deletes) :
                              Deletes[i].ok /\ Deletes[i].perm = p.id }

NoCallOnParent ==
    \A i \in 1..Len(calls) :
        calls[i].op \in {"plist", "pdelete"} => calls[i].id # parent_folder_id

\* C1 as stated: when remove_anyone_can_access_permissions has run for a public
\* file in a public folder, every 'anyone' permission of the file has received
\* exactly one delete call, and the parent folder none.
C1_ExactlyOneDeletePerAnyone ==
    pc = "removed" =>
        /\ \A p \in AnyoneAtCall :
             Cardinality({ i \in 1..Len(Deletes) :
                             Deletes[i].id = file_id /\ Deletes[i].perm = p.id }) = 1
        /\ NoCallOnParent

\* C1 amended: the function issues one permission-list call on the file and
\* then delete calls for the 'anyone' permissions of the returned list, in list
\* order, each at most once and for no other permission; a failing list or
\* delete call ends it.  When the list call and every delete call succeed there
\* is exactly one delete per 'anyone' permission and none is left on the file.
\* No list or delete call is addressed to the parent folder.
C1_DeletesFollowList ==
    pc = "removed" =>
        LET lists == CallsOf({"plist"})
        IN  /\ Len(lists) = 1 /\ lists[1].id = file_id
            /\ \A i \in 1..Len(Deletes) : Deletes[i].id = file_id
            /\ IsPrefix(CallIds(Deletes), AnyoneIds(listed))
            /\ \A i \in 1..(Len(Deletes) - 1) : Deletes[i].ok
            /\ ~lists[1].ok => Deletes = <<>>
            /\ (lists[1].ok /\ AllOk(Deletes)) =>
                   /\ CallIds(Deletes) = AnyoneIds(listed)
                   /\ AnyoneOn(file_id) = {}
                   /\ { p \in Range(listed) : ~TypeAnyone(p) } = OthersOn(file_id)
            /\ NoCallOnParent

\* A file with two 'anyone' permissions and its owner's: both were deleted.
C1_Witness ==
    /\ pc = "removed"
    /\ Len(Deletes) = 2 /\ AllOk(Deletes)
    /\ Owner \in perms[file_id]

(***************************************************************************)
(* C2.  Nothing is remediated unless all three checks said so.             *)
(***************************************************************************)
C2_Guard ==
    \A i \in 1..Len(calls) :
        calls[i].op \in {"plist", "pdelete"} =>
            /\ calls[i].id = file_id
            /\ i > 3
            /\ is_open /\ parent_folder_id # None /\ folder_open
            /\ calls[1] = Call("get", file_id, None, TRUE)
            /\ calls[2] = Call("parents", file_id, None, TRUE)
            /\ calls[3] = Call("get", parent_folder_id, None, TRUE)

C2_Step ==
    (pc \in LoopPcs /\ ~(is_open /\ parent_folder_id # None /\ folder_open))
        => perms' = perms

\* C2: a permission-list or permission-delete call is issued for a file only
\* after, in the same iteration, its public check returned true, a parent id was
\* obtained and the parent's public check returned true; while any of the three
\* is false (a failed lookup included) no permission changes.
C2_OnlyAfterThreeChecks == []C2_Guard /\ [][C2_Step]_vars

\* A public file in a public folder whose folder lookup failed: left unchanged.
C2_Witness ==
    /\ pc = "for" /\ file_id # None
    /\ is_open /\ parent_folder_id # None /\ ~folder_open
    /\ Len(calls) = 3 /\ ~calls[3].ok
    /\ AnyoneOn(file_id) # {} /\ AnyoneOn(parent_folder_id) # {}

(***************************************************************************)
(* C3, C4.  Failures of the listing call.                                  *)
(***************************************************************************)
\* C3: get_all_files never fails its caller: a failed page request does not
\* end the process.
C3_ListNeverFailsCaller == pc = "crashed" => requests = <<>>

\* C4: once monitor_drive has started, the loop is never left.
C4_LoopNeverLeft == [][(pc \in LoopPcs) => (pc' \in LoopPcs)]_vars

(***************************************************************************)
(* C5.  remove_anyone_can_access_permissions on a file without a public    *)
(* grant.                                                                  *)
(***************************************************************************)
C5_Inv ==
    (pc \in RemovePcs \cup {"idle"} /\ calls # <<>> /\ calls[1].ok
        /\ AnyoneIds(listed) = <<>>)
    => Deletes = <<>> /\ Range(listed) = perms[file_id]

C5_Step ==
    (pc \in RemovePcs /\ AnyoneOn(file_id) = {})
    => perms' = perms /\ Deletes' = Deletes

\* C5: while the function runs on a file that has no 'anyone' permission, it
\* issues no delete call and the permissions stay as they are.
C5_NoAnyoneNoDelete == []C5_Inv /\ [][C5_Step]_vars

\* A call on a file that carries permissions, none of them 'anyone', has returned.
C5_Witness ==
    /\ pc = "idle"
    /\ calls = <<Call("plist", file_id, None, TRUE)>>
    /\ listed # <<>>
    /\ AnyoneOn(file_id) = {}

(***************************************************************************)
(* C6.  Pagination.                                                        *)
(***************************************************************************)
\* C6: the pages are requested once each and in order, each request passing the
\* token the previous page returned; the loop ends at the page without a token,
\* and combined_file_list is then the concatenation of all pages.
C6_Inv ==
    pc = "list_page" =>
        /\ Len(requests) <= Len(listing)
        /\ \A i \in 1..Len(requests) : requests[i] = Tokens[i]
        /\ combined_file_list = Concat(SubSeq(listing, 1, Len(requests)))
        /\ page_token = None <=> Len(requests) = Len(listing)
        /\ page_token # None => page_token = Tokens[Len(requests) + 1]

C6_Return == (pc = "list_page" /\ pc' = "for") => files' = Concat(listing)

C6_Pagination == []C6_Inv /\ [][C6_Return]_vars

\* A listing of several pages, one of them with two entries, has been read.
C6_Witness ==
    /\ pc = "list_page" /\ page_token = None
    /\ Len(listing) >= 2
    /\ Len(combined_file_list) >= 3

(***************************************************************************)
(* C7.  Startup.                                                           *)
(***************************************************************************)
Count(s, x) == Cardinality({ i \in 1..Len(s) : s[i] = x })

\* C7: with no token file at startup the interactive flow has run exactly once
\* and its credential is in the store when the client is built; with a valid
\* stored credential nothing is refreshed, authorized or written; and no
\* listing call is made before the client is built.
C7_Startup ==
    /\ Count(authLog, "flow") <= 1
    /\ (startToken = NoCred /\ (pc = "build" \/ service)) =>
           /\ authLog = <<"flow", "write">>
           /\ tokenFile = FlowCred /\ creds = FlowCred
    /\ (startToken # NoCred /\ startToken.valid) =>
           /\ \A i \in 1..Len(authLog) : authLog[i] = "load"
           /\ tokenFile = startToken
           /\ pc # "start" => creds = startToken
    /\ pc \in StartupPcs => requests = <<>>
    /\ requests # <<>> => service

\* The first listing call of a process that started without a token file.
C7_Witness ==
    /\ startToken = NoCred
    /\ requests # <<>>

(***************************************************************************)
(* C8.  The public checks.                                                 *)
(***************************************************************************)
\* C8: each public check returns true exactly when its get call succeeded and
\* the resource carries a permission of type 'anyone'; after a failed call it
\* returns false and monitor_drive goes on.
C8_PublicChecks ==
    /\ pc = "file_checked" =>
           /\ Last(calls) \in { Call("get", file_id, None, ok) : ok \in BOOLEAN }
           /\ is_open <=> (Last(calls).ok /\ AnyoneOn(file_id) # {})
    /\ pc = "folder_checked" =>
           /\ Last(calls) \in { Call("get", parent_folder_id, None, ok) :
                                  ok \in BOOLEAN }
           /\ folder_open <=> (Last(calls).ok /\ AnyoneOn(parent_folder_id) # {})

\* The get call failed for a public folder: the check returned false.
C8_Witness ==
    /\ pc = "folder_checked"
    /\ ~Last(calls).ok /\ ~folder_open
    /\ AnyoneOn(parent_folder_id) # {}

(***************************************************************************)
(* C9.  The default-visibility probe.                                      *)
(***************************************************************************)
Unmatched(p1, p2) ==
    IF p2 = <<>> THEN p1
    ELSE SelectSeq(p1, LAMBDA permission : permission.id # p2[1].id)

\* C9: when both files were created and both permission lists fetched,
\* get_default_sharing_settings returns the permissions of the first list whose
\* id differs from the id of the second list's first entry (the whole first list
\* when the second is empty), and has issued a delete for both files.
C9_ReturnsUnmatched ==
    (/\ pc = "probe_done"
     /\ file1 # None /\ file2 # None
     /\ ~permissions1.isNone /\ ~permissions2.isNone)
    => /\ new_permissions = ListVal(Unmatched(permissions1.val, permissions2.val))
       /\ \E i \in 1..Len(calls) : calls[i].op = "fdelete" /\ calls[i].id = file1
       /\ \E i \in 1..Len(calls) : calls[i].op = "fdelete" /\ calls[i].id = file2

(***************************************************************************)
(* C10.  What the monitor loop changes.                                    *)
(***************************************************************************)
\* C10: a step of the monitor loop changes no parent list, adds no permission,
\* and removes only permissions of type 'anyone' from the file of the current
\* iteration, a non-folder the current listing returned; it issues no create
\* and no file-delete call.
C10_Frame ==
    [][(pc \in LoopPcs) =>
        /\ parents' = parents
        /\ \A r \in Resources :
             /\ perms'[r] \subseteq perms[r]
             /\ \A p \in perms[r] \ perms'[r] :
                  TypeAnyone(p) /\ r = file_id /\ r \in Files /\ r \in returned
        /\ \A i \in 1..Len(calls') :
             calls'[i].op \notin {"create", "fdelete"}]_vars

\* A public grant was deleted from a file in a public folder; the file's other
\* permissions and the folder's public grant are still there.
C10_Witness ==
    /\ pc = "removed"
    /\ \E i \in 1..Len(Deletes) : Deletes[i].ok
    /\ OthersOn(file_id) # {}
    /\ AnyoneOn(parent_folder_id) # {}

====
